---- MODULE Spec2Model ----
(***************************************************************************)
(* A model of auto.py: the pitch mapper, the tempo-aware MIDI extractor    *)
(* (parse_midi_all_tempo), the timeline normalizer (post_process_events)   *)
(* and the threads of MidiPlayerApp (GUI thread, global-hotkey thread,     *)
(* background parse thread, playback threads).                             *)
(*                                                                         *)
(* Time.  Every time value is an integer number of time units, one unit    *)
(* being 1 / (1000000 * TicksPerBeat) seconds, so that mido's              *)
(* tick2second(tick, ticks_per_beat, tempo) = tick * tempo * 1e-6 /        *)
(* ticks_per_beat is the exact integer tick * tempo.  The arithmetic of    *)
(* the model is exact; the rounding of Python floats is not modelled.      *)
(*                                                                         *)
(* Tuples.  The source's tuples are modelled as TLA+ tuples; index k of    *)
(* the source is index k + 1 here (e[0] is e[1], x[2] is x[3]).            *)
(***************************************************************************)
EXTENDS Integers, Sequences, FiniteSets, TLC

(***************************************************************************)
(* Bounds of the model.                                                    *)
(***************************************************************************)
\* ticks per quarter note in the header of every modelled MIDI file
TicksPerBeat == 1024
\* most messages in one MIDI file (all tracks together)
MaxMsgs == 3
\* most events in a timeline given to post_process_events directly
MaxLen == 3
\* latest time (in units) of an event given to post_process_events directly
MaxTime == 2
\* largest chord_min_interval / note_min_interval (in units) given directly
MaxInterval == 3

(***************************************************************************)
(* Program constants.                                                      *)
(***************************************************************************)
\* Python's None where the source stores it in a tuple of numbers
None == -1

\* current_tempo = 500000 (120 BPM)
DefaultTempo == 500000

\* time units in one second
Second == 1000000 * TicksPerBeat

\* KEY_MAP: MIDI note -> keyboard key
KEY_MAP ==
    (72 :> "1") @@ (74 :> "2") @@ (76 :> "3") @@ (77 :> "4") @@ (79 :> "5") @@
    (81 :> "6") @@ (83 :> "7") @@
    (60 :> "q") @@ (62 :> "w") @@ (64 :> "e") @@ (65 :> "f") @@ (67 :> "t") @@
    (69 :> "y") @@ (71 :> "u") @@
    (48 :> "a") @@ (50 :> "s") @@ (52 :> "d") @@ (53 :> "f") @@ (55 :> "g") @@
    (57 :> "h") @@ (59 :> "j")

abs(x) == IF x < 0 THEN -x ELSE x

\* list.sort(key=lambda e: e[k-1]): a stable sort, as insertion of each
\* element after all the elements whose key is not greater
\* (mutant) the comparison of the sort inverted: a descending sort
insert_descending(sorted, x, k) ==
    LET n == Cardinality({i \in 1..Len(sorted) : sorted[i][k] >= x[k]})
    IN  SubSeq(sorted, 1, n) \o <<x>> \o SubSeq(sorted, n + 1, Len(sorted))

\* (mutant) an unstable sort: an element goes before the elements whose key
\* is equal
insert_before_equals(sorted, x, k) ==
    LET n == Cardinality({i \in 1..Len(sorted) : sorted[i][k] < x[k]})
    IN  SubSeq(sorted, 1, n) \o <<x>> \o SubSeq(sorted, n + 1, Len(sorted))

insert(sorted, x, k) ==
    LET n == Cardinality({i \in 1..Len(sorted) : sorted[i][k] <= x[k]})
    IN  SubSeq(sorted, 1, n) \o <<x>> \o SubSeq(sorted, n + 1, Len(sorted))

RECURSIVE sort(_, _)
sort(s, k) ==
    IF s = <<>> THEN <<>>
    ELSE insert(sort(SubSeq(s, 1, Len(s) - 1), k), s[Len(s)], k)

\* WHITE_KEYS = sorted(KEY_MAP.keys())
WHITE_KEYS ==
    LET RECURSIVE asc(_)
        asc(S) == IF S = {} THEN <<>>
                  ELSE LET m == CHOOSE x \in S : \A y \in S : x <= y
                       IN  <<m>> \o asc(S \ {m})
    IN  asc(DOMAIN KEY_MAP)

\* the loop of get_closest_white_key over WHITE_KEYS[i..], with the
\* running closest key c and its distance d
RECURSIVE closest_loop(_, _, _, _)
RECURSIVE closest_loop_last(_, _, _, _)
\* (mutant) a key as close as the closest so far replaces it
closest_loop_last(pitch, i, c, d) ==
    IF i > Len(WHITE_KEYS) THEN c
    ELSE LET w == WHITE_KEYS[i]
             diff == abs(pitch - w)
         IN  IF diff <= d THEN closest_loop_last(pitch, i + 1, w, diff)
             ELSE closest_loop_last(pitch, i + 1, c, d)

closest_loop(pitch, i, c, d) ==
    IF i > Len(WHITE_KEYS) THEN c
    ELSE LET w == WHITE_KEYS[i]
             diff == abs(pitch - w)
         IN  IF diff < d THEN closest_loop(pitch, i + 1, w, diff)
             ELSE IF diff = d /\ w < c THEN closest_loop(pitch, i + 1, w, diff)
             ELSE closest_loop(pitch, i + 1, c, d)

get_closest_white_key(pitch) ==
    IF WHITE_KEYS = <<>> THEN None
    ELSE IF pitch < WHITE_KEYS[1] THEN WHITE_KEYS[1]
    ELSE IF pitch > WHITE_KEYS[Len(WHITE_KEYS)] THEN WHITE_KEYS[Len(WHITE_KEYS)]
    ELSE closest_loop(pitch, 1, WHITE_KEYS[1], abs(pitch - WHITE_KEYS[1]))

\* "None" stands for Python's None where a key name is expected
get_key_for_pitch(pitch) ==
    IF pitch \in DOMAIN KEY_MAP THEN KEY_MAP[pitch]
    ELSE LET cwk == get_closest_white_key(pitch)
         IN  IF cwk # None /\ cwk \in DOMAIN KEY_MAP THEN KEY_MAP[cwk]
             ELSE "None"

(***************************************************************************)
(* parse_midi_all_tempo.  A parsed MidiFile is a record                    *)
(*   [ticks_per_beat |-> n, tracks |-> <<track, ...>>]                      *)
(* and a message the tuple <<time, type, note, velocity, tempo>> (time is  *)
(* the delta in ticks to the previous message of its track).               *)
(***************************************************************************)
\* mido.tick2second: tick * tempo * 1e-6 / ticks_per_beat seconds, which is
\* tick * tempo time units of 1 / (1000000 * ticks_per_beat) seconds
tick2second(tick, ticks_per_beat, tempo) == tick * tempo

\* Steps 1 and 2 for one track: the collected events of track[i..], the
\* absolute tick before message i being abs_tick
RECURSIVE collect_track(_, _, _)
collect_track(track, i, abs_tick) ==
    IF i > Len(track) THEN <<>>
    ELSE LET msg == track[i]
             t == abs_tick + msg[1]
         IN  IF msg[2] = "set_tempo"
               THEN <<<<t, "set_tempo", None, None, msg[5]>>>>
                        \o collect_track(track, i + 1, t)
             ELSE IF msg[2] \in {"note_on", "note_off"}
               THEN <<<<t, msg[2], msg[3], msg[4], None>>>>
                        \o collect_track(track, i + 1, t)
             ELSE collect_track(track, i + 1, t)

RECURSIVE collect_tracks(_, _)
collect_tracks(tracks, i) ==
    IF i > Len(tracks) THEN <<>>
    ELSE collect_track(tracks[i], 1, 0) \o collect_tracks(tracks, i + 1)

\* Step 4: the results of all_events[i..]
RECURSIVE tempo_walk(_, _, _, _, _, _)
RECURSIVE tempo_walk_retroactive(_, _, _, _, _, _)
\* (mutant) a set_tempo takes effect before the delta that leads to it is
\* converted
tempo_walk_retroactive(all_events, i, ticks_per_beat, current_time, prev_tick, current_tempo) ==
    IF i > Len(all_events) THEN <<>>
    ELSE LET e == all_events[i]
             d == e[1] - prev_tick
             delta_tick == IF d < 0 THEN 0 ELSE d
             tempo == IF e[2] = "set_tempo" THEN e[5] ELSE current_tempo
             t == IF delta_tick > 0
                    THEN current_time + tick2second(delta_tick, ticks_per_beat, tempo)
                    ELSE current_time
         IN  IF e[2] = "set_tempo"
               THEN tempo_walk_retroactive(all_events, i + 1, ticks_per_beat, t,
                                           e[1], tempo)
               ELSE <<<<t, e[2], e[3], e[4]>>>>
                      \o tempo_walk_retroactive(all_events, i + 1, ticks_per_beat, t,
                                                e[1], tempo)

tempo_walk(all_events, i, ticks_per_beat, current_time, prev_tick, current_tempo) ==
    IF i > Len(all_events) THEN <<>>
    ELSE LET e == all_events[i]
             d == e[1] - prev_tick
             delta_tick == IF d < 0 THEN 0 ELSE d
             t == IF delta_tick > 0
                    THEN current_time
                           + tick2second(delta_tick, ticks_per_beat, current_tempo)
                    ELSE current_time
         IN  IF e[2] = "set_tempo"
               THEN tempo_walk(all_events, i + 1, ticks_per_beat, t, e[1], e[5])
               ELSE <<<<t, e[2], e[3], e[4]>>>>
                      \o tempo_walk(all_events, i + 1, ticks_per_beat, t, e[1],
                                    current_tempo)

\* Steps 1 to 3: the events of all tracks, sorted by absolute tick
merged_events(mid) == sort(collect_tracks(mid.tracks, 1), 1)

parse_midi_all_tempo(mid) ==
    sort(tempo_walk(merged_events(mid), 1, mid.ticks_per_beat, 0, 0, DefaultTempo), 1)

(***************************************************************************)
(* post_process_events.  An event is <<time, type, note, velocity>>.       *)
(***************************************************************************)
\* (mutant) the test of line 197 with <= for <
within_epsilon_inclusive(a, b) == abs(a - b) <= (TicksPerBeat + 999) \div 1000

\* abs(a - b) < 1e-9 (seconds): abs(a - b) * 1e9 < Second in time units,
\* that is abs(a - b) * 1000 < TicksPerBeat
within_epsilon(a, b) == abs(a - b) < (TicksPerBeat + 999) \div 1000

\* (mutant) the chord group is not sorted by note
chord_retime_unsorted(chord_group, base_time, chord_min_interval) ==
    [k \in 1..Len(chord_group) |->
       <<base_time + (k - 1) * chord_min_interval,
         chord_group[k][2], chord_group[k][3], chord_group[k][4]>>]

\* (mutant) every member of the chord group appended with the type, the
\* note and the velocity of the first event of the group
chord_retime_as_base(chord_group, base_time, chord_min_interval) ==
    [k \in 1..Len(chord_group) |->
       <<base_time + (k - 1) * chord_min_interval,
         chord_group[1][2], chord_group[1][3], chord_group[1][4]>>]

\* the chord group sorted by note, its k-th member (from 0) re-timed
chord_retime(chord_group, base_time, chord_min_interval) ==
    LET g == sort(chord_group, 3)
    IN  [k \in 1..Len(g) |->
           <<base_time + (k - 1) * chord_min_interval, g[k][2], g[k][3], g[k][4]>>]

\* the while loop of post_process_events from index i: new_events
RECURSIVE chord_spread(_, _, _)
chord_spread(events, i, chord_min_interval) ==
    IF i > Len(events) THEN <<>>
    ELSE LET base_time == events[i][1]
             far == {m \in (i + 1)..Len(events) :
                        ~within_epsilon(events[m][1], base_time)}
             j == IF far = {} THEN Len(events) + 1
                  ELSE CHOOSE m \in far : \A m2 \in far : m <= m2
         IN  chord_retime(SubSeq(events, i, j - 1), base_time, chord_min_interval)
               \o chord_spread(events, j, chord_min_interval)

\* (mutant) the spacing is measured from the previous event as it was
\* before the pass, not from the previous adjusted event
min_spacing_unadjusted(new_events, idx, adjusted, note_min_interval) ==
    [m \in 1..Len(new_events) |->
       IF m = 1 THEN new_events[1]
       ELSE LET p_time == new_events[m - 1][1]
                c == new_events[m]
            IN  <<IF c[1] < p_time + note_min_interval
                    THEN p_time + note_min_interval ELSE c[1],
                  c[2], c[3], c[4]>>]

\* the for loop of post_process_events: adjusted, extended by
\* new_events[idx..]
RECURSIVE min_spacing(_, _, _, _)
min_spacing(new_events, idx, adjusted, note_min_interval) ==
    IF idx > Len(new_events) THEN adjusted
    ELSE LET p_time == adjusted[Len(adjusted)][1]
             c == new_events[idx]
             c_time == IF c[1] < p_time + note_min_interval
                         THEN p_time + note_min_interval
                         ELSE c[1]
         IN  min_spacing(new_events, idx + 1,
                         Append(adjusted, <<c_time, c[2], c[3], c[4]>>),
                         note_min_interval)

\* (mutant) the timeline is handed over as it is
post_process_skipped(events, chord_min_interval, note_min_interval) == events

\* new_events after the first re-sort
pass1(events, chord_min_interval) ==
    sort(chord_spread(events, 1, chord_min_interval), 1)

\* adjusted before the last re-sort
pass2(new_events, note_min_interval) ==
    min_spacing(new_events, 2, <<new_events[1]>>, note_min_interval)

post_process_events(events, chord_min_interval, note_min_interval) ==
    IF events = <<>> THEN <<>>
    ELSE sort(pass2(pass1(events, chord_min_interval), note_min_interval), 1)

(***************************************************************************)
(* State.                                                                  *)
(***************************************************************************)
VARIABLES
    \* the inputs, the result and the position of a direct call of
    \* parse_midi_all_tempo or post_process_events
    fn_in, fn_out, fn_pc,
    \* the fields of MidiPlayerApp
    events, play_thread, stop_flag, parse_thread,
    \* the GUI thread and the global-hotkey thread: where each is in the
    \* handler it runs
    ctl,
    \* the playback threads (play_midi_events) and the parse threads
    \* (parse_midi_in_background) created so far
    play, parsers,
    \* time.time()
    now,
    \* how many handlers each of the two threads has run so far
    calls,
    \* the playback threads that were running when a stop_play call began
    \* (one made by the button, the hotkey or on_select_file) and are still
    \* running after it has returned, no start_play having been called since
    quiet

fn_vars == <<fn_in, fn_out, fn_pc>>

app_vars == <<events, play_thread, stop_flag, parse_thread, ctl, play, parsers, now, calls, quiet>>

vars == <<fn_vars, app_vars>>

(***************************************************************************)
(* MidiPlayerApp.                                                          *)
(***************************************************************************)
\* most handlers run by the GUI thread and by the hotkey thread
MaxGuiCalls == 3
MaxHotkeyCalls == 1
\* the clock stops after MaxClock steps of ClockStep time units
MaxClock == 1
ClockStep == Second \div 100

\* the threads that run the handlers: Tk's main loop and pynput's listener
Controllers == {"gui", "hotkey"}

\* the playback threads and the parse threads that can be created: every
\* start_play call creates at most one playback thread, every on_select_file
\* call (a button: the GUI thread only) at most one parse thread
PlayIds == 1..(MaxGuiCalls + MaxHotkeyCalls)
ParseIds == 1..MaxGuiCalls

\* the files the user can choose, and what MidiFile(path) makes of each
\* ("bad.mid" cannot be parsed: MidiFile raises)
Paths == {"a.mid", "b.mid", "bad.mid"}

MidiFile(path) ==
    IF path = "a.mid"
      THEN [ticks_per_beat |-> TicksPerBeat,
            tracks |-> <<<<<<0, "note_on", 64, 64, None>>,
                           <<0, "note_on", 60, 64, None>>>>>>]
      ELSE [ticks_per_beat |-> TicksPerBeat,
            tracks |-> <<<<<<0, "note_on", 65, 64, None>>>>>>]

\* the texts the user can have typed in entry_chord and entry_note, and
\* float(text): the number, in time units, or a ValueError
EntryTexts == {"0", "abc"}

Floats == ("0" :> 0) @@ ("0.5" :> Second \div 2)

is_float(text) == text \in DOMAIN Floats

float(text) == Floats[text]

\* chord_val = 0.01 and note_val = 0.03 (seconds) after a ValueError
DefaultChord == Second \div 100
DefaultNote == 3 * (Second \div 100)

\* threading.Thread.is_alive(): started and not yet terminated
play_alive(t) == play[t].pc \notin {"unused", "created", "dead"}
\* (mutant) a parse thread that has ended still counts as alive
parse_alive_once_started(p) == parsers[p].pc # "unused"

parse_alive(p) == parsers[p].pc \notin {"unused", "dead"}

\* a playback thread is in the while loop of play_midi_events
in_loop(t) == play[t].pc \in {"loop", "body"}

unused_play == {t \in PlayIds : play[t].pc = "unused"}
unused_parse == {p \in ParseIds : parsers[p].pc = "unused"}

\* the positions of a thread in stop_play
stop_pcs == {"stop_set", "stop_test", "stop_alive", "stop_join", "stop_joining", "stop_clear"}

\* calm: no playback thread has been alive since the stop_play call that the
\* thread is running was made by the button or the hotkey
idle_ctl ==
    [pc |-> "idle", ret |-> "idle", j |-> None, before |-> {}, file_path |-> "",
     calm |-> TRUE]

\* released: the keys released so far by the cleanup after the loop, in
\* order; tl: the value of self.events when total was computed; how: how the
\* thread ended ("returned", or "IndexError")
new_play ==
    [pc |-> "unused", start_time |-> 0, idx |-> 0, total |-> 0,
     released |-> <<>>, tl |-> <<>>, how |-> ""]

\* a playback thread that has ended
dead_play(how) == [new_play EXCEPT !.pc = "dead", !.how = how]

new_parse == [pc |-> "unused", file_path |-> ""]

AppInit ==
    /\ events = <<>>
    /\ play_thread = None
    /\ stop_flag = FALSE
    /\ parse_thread = None
    /\ ctl = [c \in Controllers |-> idle_ctl]
    /\ play = [t \in PlayIds |-> new_play]
    /\ parsers = [p \in ParseIds |-> new_parse]
    /\ now = 0
    /\ calls = [c \in Controllers |-> 0]
    /\ quiet = {}

Init ==
    /\ AppInit
    /\ fn_in = <<>>
    /\ fn_out = <<>>
    /\ fn_pc = "none"

(***************************************************************************)
(* The handlers, run by the GUI thread (buttons) and by the hotkey thread  *)
(* (Ctrl+F10, Ctrl+F11).  Every read and every write of a field of the app *)
(* is a step of its own.                                                   *)
(***************************************************************************)
\* an exception leaves the handler: Tk reports it and goes on, pynput's
\* listener logs it
raise(c) == [ctl EXCEPT ![c] = idle_ctl]

\* the thread c is between two handlers and may run one more
may_call(c) ==
    /\ ctl[c].pc = "idle"
    /\ calls[c] < (IF c = "gui" THEN MaxGuiCalls ELSE MaxHotkeyCalls)

\* start_play is called (button, or Ctrl+F10)
CallStartPlay(c) ==
    /\ may_call(c)
    /\ calls' = [calls EXCEPT ![c] = @ + 1]
    /\ ctl' = [ctl EXCEPT ![c].pc = "start_check"]
    /\ quiet' = {}
    /\ UNCHANGED <<events, play_thread, stop_flag, parse_thread, play, parsers, now, fn_vars>>

\* (mutant) the test of line 344 left out
always_something_to_play == FALSE

\* not self.events
nothing_to_play == events = <<>>

\* if not self.events: (report and return); else self.stop_play()
StartCheck(c) ==
    /\ ctl[c].pc = "start_check"
    /\ ctl' = IF nothing_to_play THEN [ctl EXCEPT ![c].pc = "start_nothing"]
              ELSE [ctl EXCEPT ![c].pc = "stop_set", ![c].ret = "start_flag"]
    /\ UNCHANGED <<events, play_thread, stop_flag, parse_thread, play, parsers, now, calls, quiet, fn_vars>>

\* self.label_status.config(text=...); return
StartNothing(c) ==
    /\ ctl[c].pc = "start_nothing"
    /\ ctl' = [ctl EXCEPT ![c] = idle_ctl]
    /\ UNCHANGED <<events, play_thread, stop_flag, parse_thread, play, parsers, now, calls, quiet, fn_vars>>

\* stop_play is called (button, or Ctrl+F11)
CallStopPlay(c) ==
    /\ may_call(c)
    /\ calls' = [calls EXCEPT ![c] = @ + 1]
    /\ ctl' = [ctl EXCEPT ![c].pc = "stop_set", ![c].ret = "idle",
                           ![c].calm = \A t \in PlayIds : ~play_alive(t)]
    /\ UNCHANGED <<events, play_thread, stop_flag, parse_thread, play, parsers, now, quiet, fn_vars>>

\* self.stop_flag = True
StopSet(c) ==
    /\ ctl[c].pc = "stop_set"
    /\ stop_flag' = TRUE
    /\ ctl' = [ctl EXCEPT ![c].pc = "stop_test",
                           ![c].before = {t \in PlayIds : play_alive(t)}]
    /\ UNCHANGED <<events, play_thread, parse_thread, play, parsers, now, calls, quiet, fn_vars>>

\* if self.play_thread (the first read of the field)
StopTest(c) ==
    /\ ctl[c].pc = "stop_test"
    /\ ctl' = [ctl EXCEPT ![c].pc = IF play_thread = None THEN "stop_clear" ELSE "stop_alive"]
    /\ UNCHANGED <<events, play_thread, stop_flag, parse_thread, play, parsers, now, calls, quiet, fn_vars>>

\* and self.play_thread.is_alive() (the second read)
StopAlive(c) ==
    /\ ctl[c].pc = "stop_alive"
    /\ ctl' = IF play_thread = None THEN raise(c)
              ELSE [ctl EXCEPT ![c].pc = IF play_alive(play_thread) THEN "stop_join"
                                         ELSE "stop_clear"]
    /\ UNCHANGED <<events, play_thread, stop_flag, parse_thread, play, parsers, now, calls, quiet, fn_vars>>

\* self.play_thread.join(): the third read, and the call
StopJoin(c) ==
    /\ ctl[c].pc = "stop_join"
    /\ ctl' = IF play_thread = None THEN raise(c)
              ELSE [ctl EXCEPT ![c].pc = "stop_joining", ![c].j = play_thread]
    /\ UNCHANGED <<events, play_thread, stop_flag, parse_thread, play, parsers, now, calls, quiet, fn_vars>>

\* join() returns when the thread has terminated
StopJoined(c) ==
    /\ ctl[c].pc = "stop_joining"
    /\ ~play_alive(ctl[c].j)
    /\ ctl' = [ctl EXCEPT ![c].pc = "stop_clear"]
    /\ UNCHANGED <<events, play_thread, stop_flag, parse_thread, play, parsers, now, calls, quiet, fn_vars>>

\* self.play_thread = None, and stop_play returns
StopClear(c) ==
    /\ ctl[c].pc = "stop_clear"
    /\ play_thread' = None
    /\ quiet' = IF ctl[c].ret = "start_flag" THEN quiet
                ELSE {t \in quiet \cup ctl[c].before : play_alive(t)}
    /\ ctl' = [ctl EXCEPT ![c] = [idle_ctl EXCEPT !.pc = ctl[c].ret]]
    /\ UNCHANGED <<events, stop_flag, parse_thread, play, parsers, now, calls, fn_vars>>

\* self.stop_flag = False
StartFlag(c) ==
    /\ ctl[c].pc = "start_flag"
    /\ stop_flag' = FALSE
    /\ ctl' = [ctl EXCEPT ![c].pc = "start_new"]
    /\ UNCHANGED <<events, play_thread, parse_thread, play, parsers, now, calls, quiet, fn_vars>>

\* self.play_thread = threading.Thread(target=self.play_midi_events)
StartNew(c) ==
    /\ ctl[c].pc = "start_new"
    /\ LET t == CHOOSE x \in unused_play : \A y \in unused_play : x <= y
       IN  /\ play' = [play EXCEPT ![t].pc = "created"]
           /\ play_thread' = t
    /\ ctl' = [ctl EXCEPT ![c].pc = "start_start"]
    /\ UNCHANGED <<events, stop_flag, parse_thread, parsers, now, calls, quiet, fn_vars>>

\* self.play_thread.start(): the field is read again; None has no start()
\* (AttributeError), a thread can be started once (RuntimeError)
StartStart(c) ==
    /\ ctl[c].pc = "start_start"
    /\ play' = IF play_thread # None /\ play[play_thread].pc = "created"
                 THEN [play EXCEPT ![play_thread].pc = "run"]
                 ELSE play
    /\ ctl' = [d \in Controllers |->
                 IF d = c THEN idle_ctl
                 ELSE IF play' # play /\ ctl[d].pc \in stop_pcs /\ ctl[d].ret = "idle"
                   THEN [ctl[d] EXCEPT !.calm = FALSE]
                 ELSE ctl[d]]
    /\ UNCHANGED <<events, play_thread, stop_flag, parse_thread, parsers, now, calls, quiet, fn_vars>>

\* on_select_file is called (button): self.stop_play() first
CallSelectFile(c) ==
    /\ c = "gui"
    /\ may_call(c)
    /\ calls' = [calls EXCEPT ![c] = @ + 1]
    /\ ctl' = [ctl EXCEPT ![c].pc = "stop_set", ![c].ret = "select_clear"]
    /\ UNCHANGED <<events, play_thread, stop_flag, parse_thread, play, parsers, now, quiet, fn_vars>>

\* self.events = [], and the file dialog opens
SelectClear(c) ==
    /\ ctl[c].pc = "select_clear"
    /\ events' = <<>>
    /\ ctl' = [ctl EXCEPT ![c].pc = "select_dialog"]
    /\ UNCHANGED <<play_thread, stop_flag, parse_thread, play, parsers, now, calls, quiet, fn_vars>>

\* (mutant) the test of line 295 left out
parse_never_busy == FALSE

\* if self.parse_thread and self.parse_thread.is_alive()
parse_busy == parse_thread # None /\ parse_alive(parse_thread)

\* askopenfilename returns "" (cancelled) or a path; with a path, the
\* request is dropped if self.parse_thread is alive
SelectDialog(c, path) ==
    /\ ctl[c].pc = "select_dialog"
    /\ ctl' = IF path = "" THEN [ctl EXCEPT ![c] = idle_ctl]
              ELSE IF parse_busy
                THEN [ctl EXCEPT ![c].pc = "select_wait", ![c].file_path = path]
              ELSE [ctl EXCEPT ![c].pc = "select_thread", ![c].file_path = path]
    /\ UNCHANGED <<events, play_thread, stop_flag, parse_thread, play, parsers, now, calls, quiet, fn_vars>>

\* self.label_status.config(text=...); return: the request is dropped
SelectWait(c) ==
    /\ ctl[c].pc = "select_wait"
    /\ ctl' = [ctl EXCEPT ![c] = idle_ctl]
    /\ UNCHANGED <<events, play_thread, stop_flag, parse_thread, play, parsers, now, calls, quiet, fn_vars>>

\* self.parse_thread = threading.Thread(...); self.parse_thread.start()
SelectThread(c) ==
    /\ ctl[c].pc = "select_thread"
    /\ LET p == CHOOSE x \in unused_parse : \A y \in unused_parse : x <= y
       IN  /\ parsers' = [parsers EXCEPT ![p] = [pc |-> "run", file_path |-> ctl[c].file_path]]
           /\ parse_thread' = p
    /\ ctl' = [ctl EXCEPT ![c] = idle_ctl]
    /\ UNCHANGED <<events, play_thread, stop_flag, play, now, calls, quiet, fn_vars>>

(***************************************************************************)
(* parse_midi_in_background, run by a parse thread.                        *)
(***************************************************************************)
\* raw_events = parse_midi_all_tempo(file_path): the file cannot be
\* parsed, and the exception ends the thread
ParseError(p) ==
    /\ parsers[p].pc = "run"
    /\ parsers[p].file_path = "bad.mid"
    /\ parsers' = [parsers EXCEPT ![p].pc = "dead"]
    /\ UNCHANGED <<events, play_thread, stop_flag, parse_thread, ctl, play, now, calls, quiet, fn_vars>>

\* raw_events = parse_midi_all_tempo(file_path); chord_val and note_val
\* from the entries (the defaults after a ValueError);
\* self.events = post_process_events(raw_events, chord_val, note_val)
ParseAssign(p, chord_text, note_text) ==
    /\ parsers[p].pc = "run"
    /\ parsers[p].file_path # "bad.mid"
    /\ LET raw_events == parse_midi_all_tempo(MidiFile(parsers[p].file_path))
           chord_val == IF is_float(chord_text) THEN float(chord_text) ELSE DefaultChord
           note_val == IF is_float(note_text) THEN float(note_text) ELSE DefaultNote
       IN  events' = post_process_events(raw_events, chord_val, note_val)
    /\ parsers' = [parsers EXCEPT ![p] = [new_parse EXCEPT !.pc = "notify"]]
    /\ UNCHANGED <<play_thread, stop_flag, parse_thread, ctl, play, now, calls, quiet, fn_vars>>

\* self.after(0, self.on_parse_done), and the thread ends
ParseNotify(p) ==
    /\ parsers[p].pc = "notify"
    /\ parsers' = [parsers EXCEPT ![p].pc = "dead"]
    /\ UNCHANGED <<events, play_thread, stop_flag, parse_thread, ctl, play, now, calls, quiet, fn_vars>>

(***************************************************************************)
(* play_midi_events, run by a playback thread.                             *)
(***************************************************************************)
\* (mutant) the comparison of line 374 inverted
due_inverted(elapsed, event_time) == elapsed <= event_time

\* if elapsed >= event_time
due(elapsed, event_time) == elapsed >= event_time

\* the call of pydirectinput for an event
key_action(ev) ==
    <<IF ev[2] = "note_on" /\ ev[4] > 0 THEN "keyDown" ELSE "keyUp", get_key_for_pitch(ev[3])>>

\* set(e[2] for e in events)
pitches(timeline) == {timeline[i][3] : i \in 1..Len(timeline)}

\* start_time = time.time(); idx = 0; total = len(self.events)
PlayBegin(t) ==
    /\ play[t].pc = "run"
    /\ play' = [play EXCEPT ![t].pc = "loop", ![t].start_time = now, ![t].idx = 0,
                            ![t].total = Len(events), ![t].tl = events]
    /\ UNCHANGED <<events, play_thread, stop_flag, parse_thread, ctl, parsers, now, calls, quiet, fn_vars>>

\* while idx < total and not self.stop_flag
PlayLoop(t) ==
    /\ play[t].pc = "loop"
    /\ play' = [play EXCEPT ![t].pc = IF play[t].idx < play[t].total /\ ~stop_flag
                                        THEN "body" ELSE "cleanup"]
    /\ UNCHANGED <<events, play_thread, stop_flag, parse_thread, ctl, parsers, now, calls, quiet, fn_vars>>

\* the thread t has ended: it is no longer one of the threads a stop_play
\* call found running
forget(t) == [c \in Controllers |-> [ctl[c] EXCEPT !.before = @ \ {t}]]

\* event_time, event_type, pitch, velocity = self.events[idx]: an
\* IndexError ends the thread
PlayIndexError(t) ==
    /\ play[t].pc = "body"
    /\ play[t].idx + 1 > Len(events)
    /\ play' = [play EXCEPT ![t] = dead_play("IndexError")]
    /\ ctl' = forget(t)
    /\ quiet' = quiet \ {t}
    /\ UNCHANGED <<events, play_thread, stop_flag, parse_thread, parsers, now, calls, fn_vars>>

\* elapsed = time.time() - start_time; if elapsed >= event_time the event
\* is dispatched and idx advances
PlayDispatch(t) ==
    /\ play[t].pc = "body"
    /\ play[t].idx + 1 <= Len(events)
    /\ due(now - play[t].start_time, events[play[t].idx + 1][1])
    /\ play' = [play EXCEPT ![t].pc = "loop", ![t].idx = @ + 1]
    /\ UNCHANGED <<events, play_thread, stop_flag, parse_thread, ctl, parsers, now, calls, quiet, fn_vars>>

\* else: time.sleep(0.001)
PlaySleep(t) ==
    /\ play[t].pc = "body"
    /\ play[t].idx + 1 <= Len(events)
    /\ ~due(now - play[t].start_time, events[play[t].idx + 1][1])
    /\ play' = [play EXCEPT ![t].pc = "loop"]
    /\ UNCHANGED <<events, play_thread, stop_flag, parse_thread, ctl, parsers, now, calls, quiet, fn_vars>>

\* the keys of a set of pitches, in ascending order of pitch
RECURSIVE keys_of(_)
keys_of(P) ==
    IF P = {} THEN <<>>
    ELSE LET p == CHOOSE x \in P : \A y \in P : x <= y
         IN  (IF get_key_for_pitch(p) # "None" THEN <<get_key_for_pitch(p)>> ELSE <<>>)
               \o keys_of(P \ {p})

\* pressed_pitches = set(e[2] for e in self.events);
\* for p in pressed_pitches: pydirectinput.keyUp(get_key_for_pitch(p))
\* (the order in which the set gives the pitches is not modelled)
PlayCleanup(t) ==
    /\ play[t].pc = "cleanup"
    /\ play' = [play EXCEPT ![t].pc = "ending", ![t].released = keys_of(pitches(events))]
    /\ UNCHANGED <<events, play_thread, stop_flag, parse_thread, ctl, parsers, now, calls, quiet, fn_vars>>

\* self.after(0, ...), and the thread ends
PlayEnd(t) ==
    /\ play[t].pc = "ending"
    /\ play' = [play EXCEPT ![t] = dead_play("returned")]
    /\ ctl' = forget(t)
    /\ quiet' = quiet \ {t}
    /\ UNCHANGED <<events, play_thread, stop_flag, parse_thread, parsers, now, calls, fn_vars>>

\* time passes
Tick ==
    /\ now < MaxClock * ClockStep
    /\ now' = now + ClockStep
    /\ UNCHANGED <<events, play_thread, stop_flag, parse_thread, ctl, play, parsers, calls, quiet, fn_vars>>

\* the handlers, run by the thread c
Handlers(c) ==
    \/ CallStartPlay(c)
    \/ StartCheck(c)
    \/ StartNothing(c)
    \/ CallStopPlay(c)
    \/ StopSet(c)
    \/ StopTest(c)
    \/ StopAlive(c)
    \/ StopJoin(c)
    \/ StopJoined(c)
    \/ StopClear(c)
    \/ StartFlag(c)
    \/ StartNew(c)
    \/ StartStart(c)
    \/ CallSelectFile(c)
    \/ SelectClear(c)
    \/ \E path \in Paths \cup {""} : SelectDialog(c, path)
    \/ SelectWait(c)
    \/ SelectThread(c)

\* the parse threads, the playback threads and the clock
Threads ==
    \/ \E p \in ParseIds :
          \/ ParseError(p)
          \/ \E chord_text \in EntryTexts, note_text \in EntryTexts :
                ParseAssign(p, chord_text, note_text)
          \/ ParseNotify(p)
    \/ \E t \in PlayIds :
          \/ PlayBegin(t)
          \/ PlayLoop(t)
          \/ PlayIndexError(t)
          \/ PlayDispatch(t)
          \/ PlaySleep(t)
          \/ PlayCleanup(t)
          \/ PlayEnd(t)
    \/ Tick

Next ==
    \/ \E c \in Controllers : Handlers(c)
    \/ Threads

Spec == Init /\ [][Next]_vars

\* GuiSpec: the hotkeys are never pressed; every handler runs on the GUI
\* thread, one at a time
GuiNext ==
    \/ Handlers("gui")
    \/ Threads

GuiSpec == Init /\ [][GuiNext]_vars

(***************************************************************************)
(* LiveSpec: GuiSpec with the scheduling the threads can count on.  The    *)
(* clock advances; a handler that has been called, a parse thread and a    *)
(* playback thread go on as long as they can.  The user owes nothing: no   *)
(* button has to be pressed, no file dialog has to be closed.  self.after  *)
(* called by a thread other than Tk's: Tkinter hands the call to the       *)
(* thread of the main loop and waits until that thread serves it (a        *)
(* threaded Tcl), or makes the call at once (a Tcl without threads); what  *)
(* every build guarantees is that the call returns while the GUI thread is *)
(* in its event loop.                                                      *)
(***************************************************************************)
\* the GUI thread serves the events of Tk: it is between two handlers, or in
\* the event loop of the file dialog
main_loop_serves == ctl["gui"].pc \in {"idle", "select_dialog"}

\* the steps of a handler after its call, the choice of the user in the
\* file dialog left out
HandlerSteps(c) ==
    \/ StartCheck(c)
    \/ StartNothing(c)
    \/ StopSet(c)
    \/ StopTest(c)
    \/ StopAlive(c)
    \/ StopJoin(c)
    \/ StopJoined(c)
    \/ StopClear(c)
    \/ StartFlag(c)
    \/ StartNew(c)
    \/ StartStart(c)
    \/ SelectClear(c)
    \/ SelectWait(c)
    \/ SelectThread(c)

\* the steps a playback thread can count on: every step before its call of
\* self.after, and that call while the main loop serves it
PlaySteps(t) ==
    \/ PlayBegin(t)
    \/ PlayLoop(t)
    \/ PlayIndexError(t)
    \/ PlayDispatch(t)
    \/ PlaySleep(t)
    \/ PlayCleanup(t)
    \/ main_loop_serves /\ PlayEnd(t)

\* the steps a parse thread can count on, likewise
ParseSteps(p) ==
    \/ ParseError(p)
    \/ \E chord_text \in EntryTexts, note_text \in EntryTexts :
          ParseAssign(p, chord_text, note_text)
    \/ main_loop_serves /\ ParseNotify(p)

\* a parse thread has a step it can count on
parse_can_step ==
    \E p \in ParseIds :
       \/ parsers[p].pc = "run"
       \/ parsers[p].pc = "notify" /\ main_loop_serves

\* weak fairness to the parse threads, WF_vars(\E p \in ParseIds : ParseSteps(p)),
\* with the enabling condition of the steps written out (every parse step
\* changes parsers, so that it is enabled exactly when parse_can_step holds)
ParseFairness ==
    \/ []<>(~parse_can_step)
    \/ []<><<\E p \in ParseIds : ParseSteps(p)>>_vars

\* with the GUI thread alone at most one playback thread and at most one
\* parse thread take steps at a time, so that fairness to the threads
\* together is fairness to each
Fairness ==
    /\ WF_vars(Tick)
    /\ WF_vars(HandlerSteps("gui"))
    /\ WF_vars(\E t \in PlayIds : PlaySteps(t))
    /\ ParseFairness

LiveSpec == Init /\ [][GuiNext]_vars /\ Fairness

(***************************************************************************)
(* Direct calls of parse_midi_all_tempo, on every MIDI file of two tracks with   *)
(* at most MaxMsgs messages.                                               *)
(***************************************************************************)
\* the delta times, in ticks, of the messages of the modelled files
Deltas == {0, 1, TicksPerBeat}

\* the messages of the modelled files
Messages ==
    {<<d, "set_tempo", None, None, 250000>> : d \in Deltas}
      \cup {<<0, "set_tempo", None, None, 500000>>}
      \cup {<<d, "note_on", 60, 64, None>> : d \in Deltas}
      \cup {<<d, "note_off", 64, 0, None>> : d \in Deltas}
      \cup {<<d, "control_change", None, None, None>> : d \in Deltas}

ParseInit ==
    /\ fn_in = [ticks_per_beat |-> TicksPerBeat, tracks |-> <<<<>>, <<>>>>]
    /\ fn_out = <<>>
    /\ fn_pc = "file"

\* the file gets one more message at the end of track tr
AddMessage(tr, msg) ==
    /\ fn_pc = "file"
    /\ Len(fn_in.tracks[1]) + Len(fn_in.tracks[2]) < MaxMsgs
    /\ fn_in' = [fn_in EXCEPT !.tracks[tr] = Append(@, msg)]
    /\ UNCHANGED <<fn_out, fn_pc, app_vars>>

CallParse ==
    /\ fn_pc = "file"
    /\ fn_out' = parse_midi_all_tempo(fn_in)
    /\ fn_pc' = "parsed"
    /\ UNCHANGED <<fn_in, app_vars>>

ParseNext ==
    \/ \E tr \in {1, 2}, msg \in Messages : AddMessage(tr, msg)
    \/ CallParse

(***************************************************************************)
(* Direct calls of post_process_events, on every timeline of at most MaxLen       *)
(* events at the times of NormTimes (sorted or not) and every pair of      *)
(* intervals in 0..MaxInterval.                                            *)
(***************************************************************************)
\* the times of the events: one time, a time less than 1e-9 s after it and a
\* time 1e-9 s or more after both
NormTimes == {0, 1, MaxTime}

NormEvents ==
    {<<t, "note_on", 60, 64>> : t \in NormTimes}
      \cup {<<t, "note_on", 64, 64>> : t \in NormTimes}
      \cup {<<t, "note_off", 64, 0>> : t \in NormTimes}

NormInit ==
    /\ fn_in \in {[events |-> e, chord_min_interval |-> 0, note_min_interval |-> 0] :
                     e \in UNION {[1..n -> NormEvents] : n \in 0..MaxLen}}
    /\ fn_out = <<>>
    /\ fn_pc = "timeline"

CallPostProcess(chord_val, note_val) ==
    /\ fn_pc = "timeline"
    /\ fn_in' = [fn_in EXCEPT !.chord_min_interval = chord_val,
                              !.note_min_interval = note_val]
    /\ fn_out' = post_process_events(fn_in.events, chord_val, note_val)
    /\ fn_pc' = "processed"
    /\ UNCHANGED app_vars

NormNext ==
    \E chord_val \in 0..MaxInterval, note_val \in 0..MaxInterval :
        CallPostProcess(chord_val, note_val)

(***************************************************************************)
(* Direct calls of get_closest_white_key and get_key_for_pitch, on every   *)
(* MIDI note number.                                                       *)
(***************************************************************************)
\* the values of msg.note
Pitches == 0..127

KeyInit ==
    /\ fn_in \in Pitches
    /\ fn_out = <<>>
    /\ fn_pc = "pitch"

CallKey ==
    /\ fn_pc = "pitch"
    /\ fn_out' = <<get_closest_white_key(fn_in), get_key_for_pitch(fn_in)>>
    /\ fn_pc' = "mapped"
    /\ UNCHANGED <<fn_in, app_vars>>

(***************************************************************************)
(* FnSpec: the direct calls of the functions.                              *)
(***************************************************************************)
FnInit == (ParseInit \/ NormInit \/ KeyInit) /\ AppInit

FnNext == ParseNext \/ NormNext \/ CallKey

FnSpec == FnInit /\ [][FnNext]_vars

\* the direct calls of parse_midi_all_tempo alone
ParseOnly == ParseInit /\ AppInit

ParseSpec == ParseOnly /\ [][ParseNext]_vars

\* the direct calls of post_process_events alone
NormOnly == NormInit /\ AppInit

NormSpec == NormOnly /\ [][NormNext]_vars

(***************************************************************************)
(* Properties of MidiPlayerApp (Spec, GuiSpec).                            *)
(***************************************************************************)
\* C1: in every reachable state at most one playback thread is in the
\* dispatch loop of play_midi_events, whatever the interleaving of the
\* start_play and stop_play calls of the GUI thread and the hotkey thread.
C1_OneSession ==
    Cardinality({t \in PlayIds : in_loop(t)}) <= 1

\* C2: every playback thread ends by returning from play_midi_events, and
\* when its cleanup is over it has released, once each, the keys of the
\* distinct notes of the timeline it started with.
C2_GuaranteedCleanup ==
    \A t \in PlayIds :
        /\ play[t].pc = "dead" => play[t].how = "returned"
        /\ play[t].pc = "ending" => play[t].released = keys_of(pitches(play[t].tl))

\* the step dispatches an event of the thread t, or runs its cleanup with
\* at least one key to release
issues(t) ==
    \/ play'[t].pc # "dead" /\ play'[t].idx = play[t].idx + 1
    \/ play[t].pc = "cleanup" /\ play'[t].released # <<>>

\* C3: once a stop_play call has returned, no playback thread that was
\* running when the call began presses or releases a key, until start_play
\* is called again.
C3_JoinSemantics ==
    [][\A t \in quiet : ~issues(t)]_vars

\* C4: the cursor of a playback thread moves only by a dispatch, one event
\* forward, the event at the cursor existing and being due (the time elapsed
\* since the start of the session is at least its time): no event is
\* dispatched early, twice or out of order.
C4_InOrderNotEarly ==
    [][\A t \in PlayIds :
          play'[t].idx # play[t].idx /\ play'[t].pc # "dead"
            => /\ play[t].pc = "body"
               /\ play'[t].idx = play[t].idx + 1
               /\ play[t].idx < Len(events)
               /\ now - play[t].start_time >= events[play[t].idx + 1][1]]_vars

\* a playback thread has dispatched, after waiting, a second event whose
\* time is not 0
C4_Witness ==
    \E t \in PlayIds :
        /\ play[t].pc = "loop"
        /\ play[t].idx = 2
        /\ events = play[t].tl
        /\ events[2][1] > 0
        /\ now - play[t].start_time >= events[2][1]

\* C5: while a playback thread is in the dispatch loop, self.events is the
\* timeline the thread started with, and the cursor is within it.
C5_TimelineReadOnly ==
    \A t \in PlayIds :
        in_loop(t) => events = play[t].tl /\ play[t].idx <= Len(events)

\* the parse threads created by the step
created == {p \in ParseIds : parsers[p].pc = "unused" /\ parsers'[p].pc # "unused"}

\* C6: at most one parse thread is alive at any time; a file chosen while a
\* parse thread is alive creates no parse thread and is forgotten (the
\* handler returns, the path kept nowhere); a file chosen while none is
\* alive creates exactly one parse thread, for that file.
C6_OneParse ==
    /\ [](Cardinality({p \in ParseIds : parse_alive(p)}) <= 1)
    /\ [][/\ Cardinality(created) <= 1
          /\ created # {}
               => /\ ctl["gui"].pc = "select_thread"
                  /\ \A p \in ParseIds : ~parse_alive(p)
                  /\ \A p \in created : parsers'[p].file_path = ctl["gui"].file_path
          /\ ctl["gui"].pc = "select_dialog" /\ ctl'["gui"].pc = "select_wait"
               => \E p \in ParseIds : parse_alive(p)
          /\ ctl["gui"].pc = "select_dialog" /\ ctl'["gui"].pc = "select_thread"
               => \A p \in ParseIds : ~parse_alive(p)
          /\ ctl["gui"].pc = "select_wait" /\ ctl'["gui"] # ctl["gui"]
               => created = {} /\ ctl'["gui"] = idle_ctl
          /\ ctl["gui"].pc = "select_thread" /\ ctl'["gui"] # ctl["gui"]
               => Cardinality(created) = 1]_vars

\* a second file has been chosen while the parse thread of the first is
\* alive: the request is being dropped
C6_Witness ==
    /\ ctl["gui"].pc = "select_wait"
    /\ Cardinality({p \in ParseIds : parse_alive(p)}) = 1
    /\ Cardinality({p \in ParseIds : parsers[p].pc # "unused"}) = 1

(***************************************************************************)
(* Properties of parse_midi_all_tempo and post_process_events (FnSpec,     *)
(* ParseSpec, NormSpec).                                                   *)
(***************************************************************************)
non_decreasing(seq) == \A i \in 2..Len(seq) : seq[i - 1][1] <= seq[i][1]

\* C7: the sequence returned by parse_midi_all_tempo is non-decreasing in
\* time for every file, and the sequence returned by post_process_events is
\* non-decreasing in time for every timeline and every pair of intervals >= 0.
C7_Monotonicity ==
    /\ fn_pc = "parsed" => non_decreasing(fn_out)
    /\ fn_pc = "processed" => non_decreasing(fn_out)

\* an unsorted timeline of three events at three times was normalized
C7_Witness ==
    /\ fn_pc = "processed"
    /\ Len(fn_in.events) = 3
    /\ fn_in.events[1][1] > fn_in.events[2][1]
    /\ fn_in.events[2][1] > fn_in.events[3][1]
    /\ fn_out[1][1] < fn_out[3][1]

\* C8: in the final output of post_process_events every event is at least
\* note_min_interval after the event before it, and Pass 2 gives no event a
\* time earlier than the time it had after Pass 1.
C8_MinimumSpacing ==
    fn_pc = "processed" /\ fn_in.events # <<>> =>
        LET new_events == pass1(fn_in.events, fn_in.chord_min_interval)
            adjusted == pass2(new_events, fn_in.note_min_interval)
        IN  /\ \A i \in 2..Len(fn_out) :
                  fn_out[i][1] >= fn_out[i - 1][1] + fn_in.note_min_interval
            /\ Len(adjusted) = Len(new_events)
            /\ \A i \in 1..Len(new_events) :
                  /\ adjusted[i][1] >= new_events[i][1]
                  /\ <<adjusted[i][2], adjusted[i][3], adjusted[i][4]>>
                       = <<new_events[i][2], new_events[i][3], new_events[i][4]>>

\* Pass 2 moved the second and the third of three events forward, the third
\* past the place the second had left
C8_Witness ==
    /\ fn_pc = "processed"
    /\ Len(fn_in.events) = 3
    /\ fn_in.note_min_interval = 2
    /\ LET new_events == pass1(fn_in.events, fn_in.chord_min_interval)
       IN  /\ new_events[2][1] = new_events[1][1] + 1
           /\ new_events[3][1] = new_events[1][1] + 2
           /\ fn_out[2][1] = new_events[1][1] + 2
           /\ fn_out[3][1] = new_events[1][1] + 4

\* the tempo in effect for the delta that leads to element i of the sorted
\* merged stream s: the value of the last set_tempo before i, or 500000
tempo_in_effect(s, i) ==
    LET before == {p \in 1..(i - 1) : s[p][2] = "set_tempo"}
    IN  IF before = {} THEN 500000
        ELSE s[CHOOSE p \in before : \A q \in before : q <= p][5]

\* the sum over the elements 1..i of s of deltaTick * tempoInEffect
RECURSIVE time_of(_, _)
time_of(s, i) ==
    IF i = 0 THEN 0
    ELSE time_of(s, i - 1)
           + (s[i][1] - (IF i = 1 THEN 0 ELSE s[i - 1][1])) * tempo_in_effect(s, i)

\* the note events of the stream s, each with the time time_of gives it
timed_notes(s) ==
    LET at == {i \in 1..Len(s) : s[i][2] # "set_tempo"}
        RECURSIVE from(_)
        from(i) == IF i > Len(s) THEN <<>>
                   ELSE IF i \in at
                     THEN <<<<time_of(s, i), s[i][2], s[i][3], s[i][4]>>>> \o from(i + 1)
                     ELSE from(i + 1)
    IN  from(1)

\* the absolute tick of message i of a track
RECURSIVE tick_of(_, _)
tick_of(track, i) == IF i = 0 THEN 0 ELSE tick_of(track, i - 1) + track[i][1]

\* the number of note messages of the file at absolute ticks <= T
notes_until(mid, T) ==
    Cardinality({x \in {1, 2} \X (1..MaxMsgs + 1) :
                    /\ x[2] <= Len(mid.tracks[x[1]])
                    /\ mid.tracks[x[1]][x[2]][2] \in {"note_on", "note_off"}
                    /\ tick_of(mid.tracks[x[1]], x[2]) <= T})

\* the file with message i of track tr replaced by a message that carries
\* the same delta time and no tempo
without_tempo(mid, tr, i) ==
    [mid EXCEPT !.tracks[tr][i] = <<@[1], "control_change", None, None, None>>]

\* C9: the time of each emitted note event is the sum, over the tick deltas
\* of the tick-sorted merged stream up to it, of deltaTick * tempoInEffect
\* (in units of 1 / (1000000 * ticksPerQuarterNote) seconds), the tempo in
\* effect starting at 500000 and being the value of the last SetTempo before
\* the delta; and a SetTempo at tick T leaves the times of the note events
\* with tick <= T as they are without it.
C9_TickToTime ==
    fn_pc = "parsed" =>
        /\ fn_out = timed_notes(merged_events(fn_in))
        /\ \A tr \in {1, 2} : \A i \in 1..Len(fn_in.tracks[tr]) :
              fn_in.tracks[tr][i][2] = "set_tempo" =>
                  LET early == notes_until(fn_in, tick_of(fn_in.tracks[tr], i))
                      other == parse_midi_all_tempo(without_tempo(fn_in, tr, i))
                  IN  SubSeq(fn_out, 1, early) = SubSeq(other, 1, early)

\* a note one beat after the start at the default tempo is at half a second,
\* and a SetTempo(250000) between it and a note one beat later puts that
\* note a quarter of a second after it
C9_Witness ==
    /\ fn_pc = "parsed"
    /\ Len(fn_out) = 2
    /\ \E tr \in {1, 2} : /\ Len(fn_in.tracks[tr]) = 3
                          /\ fn_in.tracks[tr][2][2] = "set_tempo"
    /\ 2 * fn_out[1][1] = Second
    /\ 4 * (fn_out[2][1] - fn_out[1][1]) = Second

\* C10: a timeline whose events all have the same time t comes out of
\* post_process_events in ascending note order, whatever the order they
\* arrived in, the k-th (from 0) at t + k * chord_min_interval when
\* note_min_interval <= chord_min_interval, and at
\* t + k * max(chord_min_interval, note_min_interval) in general.
C10_ChordOrdering ==
    fn_pc = "processed" /\ fn_in.events # <<>>
      /\ (\A i \in 1..Len(fn_in.events) : fn_in.events[i][1] = fn_in.events[1][1]) =>
        LET t == fn_in.events[1][1]
            c == fn_in.chord_min_interval
            n == fn_in.note_min_interval
            step == IF n <= c THEN c ELSE n
        IN  /\ Len(fn_out) = Len(fn_in.events)
            /\ \A k \in 1..Len(fn_out) : fn_out[k][1] = t + (k - 1) * step
            /\ \A k \in 2..Len(fn_out) : fn_out[k - 1][3] <= fn_out[k][3]
            /\ \A k \in 1..Len(fn_out) :
                  Cardinality({i \in 1..Len(fn_out) : fn_out[i][3] = fn_out[k][3]})
                    = Cardinality({i \in 1..Len(fn_in.events) :
                                      fn_in.events[i][3] = fn_out[k][3]})

\* notes 64 then 60 at one time came out as 60 then 64, one chord interval
\* apart
C10_Witness ==
    /\ fn_pc = "processed"
    /\ Len(fn_in.events) = 2
    /\ fn_in.events[1][1] = fn_in.events[2][1]
    /\ fn_in.events[1][3] = 64 /\ fn_in.events[2][3] = 60
    /\ fn_in.chord_min_interval = 1 /\ fn_in.note_min_interval = 0
    /\ fn_out[1][3] = 60 /\ fn_out[2][3] = 64
    /\ fn_out[2][1] = fn_out[1][1] + 1

(***************************************************************************)
(* Further properties of post_process_events and the pitch mapper          *)
(* (NormSpec, FnSpec).                                                     *)
(***************************************************************************)
\* two times less than 1e-9 s apart: 1e9 * |a - b| < Second
near(a, b) == 1000 * abs(a - b) < TicksPerBeat

\* sorted by time, no two events at the same time, every event at least
\* note after the one before
compliant(tl, note) ==
    \A i \in 2..Len(tl) : tl[i][1] > tl[i - 1][1] /\ tl[i][1] >= tl[i - 1][1] + note

\* no two successive events less than 1e-9 s apart
spread(tl) == \A i \in 2..Len(tl) : ~near(tl[i][1], tl[i - 1][1])

\* C11 as stated: post_process_events returns every compliant timeline
\* unchanged, and with note_min_interval > 0 a second application to its
\* own result changes nothing.
C11_Idempotence ==
    fn_pc = "processed"
      => /\ compliant(fn_in.events, fn_in.note_min_interval) => fn_out = fn_in.events
         /\ fn_in.note_min_interval > 0
              => post_process_events(fn_out, fn_in.chord_min_interval,
                                     fn_in.note_min_interval) = fn_out

\* C11 amended: post_process_events returns unchanged every compliant
\* timeline whose successive events are at least 1e-9 s apart, and with
\* note_min_interval >= 1e-9 s a second application to its own result
\* changes nothing.
C11_IdempotenceSpread ==
    fn_pc = "processed"
      => /\ compliant(fn_in.events, fn_in.note_min_interval) /\ spread(fn_in.events)
              => fn_out = fn_in.events
         /\ ~near(0, fn_in.note_min_interval)
              => post_process_events(fn_out, fn_in.chord_min_interval,
                                     fn_in.note_min_interval) = fn_out

\* a compliant timeline of two events of different notes, the higher note
\* first, 1e-9 s apart or more, has been processed with positive intervals
C11_Witness ==
    /\ fn_pc = "processed"
    /\ Len(fn_in.events) = 2
    /\ fn_in.events[1][3] > fn_in.events[2][3]
    /\ fn_in.chord_min_interval > 0
    /\ ~near(0, fn_in.note_min_interval)
    /\ compliant(fn_in.events, fn_in.note_min_interval)
    /\ spread(fn_in.events)
    /\ fn_out = fn_in.events

\* C12: get_closest_white_key(pitch) is a key of KEY_MAP at the least
\* distance from pitch, the smaller of two keys at that distance, and
\* get_key_for_pitch(pitch) is never None.
C12_NearestWhiteKey ==
    fn_pc = "mapped"
      => /\ fn_out[1] \in DOMAIN KEY_MAP
         /\ \A w \in DOMAIN KEY_MAP :
               /\ abs(fn_in - fn_out[1]) <= abs(fn_in - w)
               /\ abs(fn_in - w) = abs(fn_in - fn_out[1]) => fn_out[1] <= w
         /\ fn_out[2] # "None"
         /\ fn_out[2] = KEY_MAP[IF fn_in \in DOMAIN KEY_MAP THEN fn_in ELSE fn_out[1]]

\* pitch 51, between the keys 50 and 52, has been mapped to 50
C12_Witness ==
    /\ fn_pc = "mapped"
    /\ fn_in = 51
    /\ fn_out = <<50, "s">>

(***************************************************************************)
(* Further properties of MidiPlayerApp (Spec, GuiSpec, LiveSpec).          *)
(***************************************************************************)
\* the thread c is in a stop_play call made by the button or the hotkey
\* while no playback thread was alive, and none has been alive since
in_idle_stop(c) ==
    /\ ctl[c].ret = "idle"
    /\ ctl[c].pc \in stop_pcs
    /\ ctl[c].calm

\* C13: a stop_play call made while no playback thread is alive goes on to
\* its return as long as none is started (no exception leaves the call, no
\* join of a live thread is begun), changes no playback thread and leaves
\* self.events as it is, and returns with self.play_thread = None and
\* self.stop_flag set, as a single call does.
C13_IdempotentStop ==
    [][\A c \in Controllers :
          in_idle_stop(c) /\ ctl'[c] # ctl[c] /\ play' = play
          => /\ ctl'[c].pc = "idle" => ctl[c].pc = "stop_clear" /\ play_thread' = None
             /\ ctl[c].pc = "stop_alive" => ctl'[c].pc = "stop_clear"
             /\ ctl[c].pc = "stop_set" => stop_flag'
             /\ events' = events]_vars

\* C14: when start_play finds self.events empty it reports it and returns:
\* from the test to the return the call changes neither self.stop_flag nor
\* self.play_thread, creates and starts no playback thread, and goes
\* nowhere but to its return.
C14_NothingToPlay ==
    [][\A c \in Controllers :
          ctl'[c] # ctl[c]
          => /\ ctl[c].pc = "start_check" /\ events = <<>>
                  => /\ ctl'[c].pc = "start_nothing"
                     /\ UNCHANGED <<stop_flag, play_thread, play, events>>
             /\ ctl[c].pc = "start_nothing"
                  => /\ ctl'[c] = idle_ctl
                     /\ UNCHANGED <<stop_flag, play_thread, play, events>>
             /\ ctl'[c].pc = "start_nothing"
                  => ctl[c].pc = "start_check" /\ events = <<>>]_vars

\* start_play has found self.events empty while a parse thread is still at
\* work (a load in flight), and is about to return
C14_Witness ==
    /\ ctl["gui"].pc = "start_nothing"
    /\ \E p \in ParseIds : parsers[p].pc = "run"
    /\ events = <<>>
    /\ \A t \in PlayIds : play[t].pc = "unused"

\* the parse thread p was given a file that cannot be parsed
failing(p) == parsers[p].file_path = "bad.mid"

normalized_form(tl) ==
    \A i \in 2..Len(tl) :
        /\ tl[i - 1][1] <= tl[i][1]
        /\ tl[i - 1][1] = tl[i][1] => tl[i - 1][3] <= tl[i][3]

\* C16: self.events always is the empty timeline or a normalized one; it
\* changes only by being emptied or by the one step in which a parse thread
\* assigns the normalized timeline of its file, and the thread posts its
\* notification after that step, leaving self.events alone.
C16_HandOff ==
    /\ [](normalized_form(events))
    /\ [][/\ events' # events
               => \/ events' = <<>>
                  \/ \E p \in ParseIds :
                        /\ parsers[p].pc = "run"
                        /\ parsers'[p].pc = "notify"
                        /\ pitches(events')
                             = pitches(parse_midi_all_tempo(MidiFile(parsers[p].file_path)))
          /\ \A p \in ParseIds :
                /\ parsers'[p].pc = "notify" /\ parsers[p].pc # "notify"
                     => parsers[p].pc = "run" /\ events' # <<>>
                /\ parsers[p].pc = "notify" /\ parsers'[p] # parsers[p]
                     => parsers'[p].pc = "dead" /\ events' = events]_vars

\* a parse thread has assigned the timeline of a file whose raw timeline
\* has note 64 before note 60, and is about to post its notification
C16_Witness ==
    \E p \in ParseIds :
        /\ parsers[p].pc = "notify"
        /\ Len(events) = 2
        /\ parse_midi_all_tempo(MidiFile("a.mid"))[1][3] = 64
        /\ events[1][3] = 60
        /\ events[2][3] = 64

(***************************************************************************)
(* Further properties of parse_midi_all_tempo and post_process_events      *)
(* (ParseSpec).                                                            *)
(***************************************************************************)
\* the note events of a merged stream, in order
notes_of(stream) == SelectSeq(stream, LAMBDA e : e[2] \in {"note_on", "note_off"})

\* C17: the events of one absolute tick are in the merged stream in the
\* order of the concatenation of the tracks; the returned timeline has the
\* note events of the merged stream in the same order, those of one tick at
\* one time.
C17_StableMerge ==
    fn_pc = "parsed"
      => LET concatenated == collect_tracks(fn_in.tracks, 1)
             merged == merged_events(fn_in)
             notes == notes_of(merged)
         IN  /\ Len(merged) = Len(concatenated)
             /\ \A i \in 1..Len(concatenated) :
                   LET T == concatenated[i][1]
                   IN  SelectSeq(merged, LAMBDA e : e[1] = T)
                         = SelectSeq(concatenated, LAMBDA e : e[1] = T)
             /\ Len(fn_out) = Len(notes)
             /\ \A i \in 1..Len(notes) :
                   /\ <<fn_out[i][2], fn_out[i][3], fn_out[i][4]>>
                        = <<notes[i][2], notes[i][3], notes[i][4]>>
                   /\ \A j \in 1..Len(notes) :
                         notes[i][1] = notes[j][1] => fn_out[i][1] = fn_out[j][1]

\* a file has been parsed whose second track has a note_on at a tick where
\* the first track has a note_off, after a tempo change
C17_Witness ==
    /\ fn_pc = "parsed"
    /\ Len(fn_in.tracks[1]) = 2
    /\ fn_in.tracks[1][1][2] = "set_tempo"
    /\ fn_in.tracks[1][2] = <<1, "note_off", 64, 0, None>>
    /\ fn_in.tracks[2] = <<<<1, "note_on", 60, 64, None>>>>
    /\ Len(fn_out) = 2
    /\ fn_out[1][2] = "note_off"
    /\ fn_out[2][2] = "note_on"
    /\ fn_out[1][1] = fn_out[2][1]

(***************************************************************************)
(* Termination (LiveSpec).                                                 *)
(***************************************************************************)
\* the playback thread t waits for an event that is due after the last
\* step of the clock of the model
beyond_clock(t) ==
    /\ in_loop(t)
    /\ play[t].idx < Len(events)
    /\ ~stop_flag
    /\ events[play[t].idx + 1][1] > MaxClock * ClockStep - play[t].start_time

\* C18: every playback thread that has been started ends by returning from
\* play_midi_events (or waits for an event later than the clock of the
\* model goes), and every stop_play call returns (or has joined such a
\* thread).
C18_Termination ==
    /\ \A t \in PlayIds :
          play_alive(t) ~> \/ play[t].pc = "dead" /\ play[t].how = "returned"
                           \/ beyond_clock(t)
    /\ \A c \in Controllers :
          ctl[c].pc \in stop_pcs
            ~> \/ ctl[c].pc \notin stop_pcs
               \/ ctl[c].pc = "stop_joining" /\ beyond_clock(ctl[c].j)

\* the events of note n in a timeline, in order, without their times
events_of_note(tl, n) ==
    LET s == SelectSeq(tl, LAMBDA e : e[3] = n)
    IN  [i \in 1..Len(s) |-> <<s[i][2], s[i][4]>>]

\* C19: for every time-sorted timeline and every pair of intervals >= 0,
\* the events of one note are in the output of post_process_events in the
\* order they have in the input.
C19_PerNoteOrder ==
    fn_pc = "processed" /\ non_decreasing(fn_in.events)
      => \A n \in {60, 64} :
            events_of_note(fn_out, n) = events_of_note(fn_in.events, n)

\* the triple of an event: type, note and velocity
triple(e) == <<e[2], e[3], e[4]>>

\* no two events of the timeline are less than 1e-9 s apart without being
\* at one time
exactly_simultaneous(tl) ==
    \A i, j \in 1..Len(tl) : near(tl[i][1], tl[j][1]) => tl[i][1] = tl[j][1]

\* the events of a timeline with the triple of e, at the time of e or later
same_from(tl, e) == {j \in 1..Len(tl) : triple(tl[j]) = triple(e) /\ tl[j][1] >= e[1]}

\* the events of a timeline with the triple of e
same(tl, e) == {j \in 1..Len(tl) : triple(tl[j]) = triple(e)}

\* C20: the output of post_process_events has the length of the input and
\* the same events, as many of each type, note and velocity; when the
\* simultaneous events of the input have equal times, the events of the
\* output can be matched one for one with events of the input of the same
\* type, note and velocity and of no later time (such a matching exists
\* exactly when, for every input event e, the output has at least as many
\* events like e at the time of e or later as the input has).
C20_OnlyRetimes ==
    fn_pc = "processed"
      => /\ Len(fn_out) = Len(fn_in.events)
         /\ \A i \in 1..Len(fn_in.events) :
               Cardinality(same(fn_out, fn_in.events[i]))
                 = Cardinality(same(fn_in.events, fn_in.events[i]))
         /\ exactly_simultaneous(fn_in.events)
              => \A i \in 1..Len(fn_in.events) :
                    Cardinality(same_from(fn_out, fn_in.events[i]))
                      >= Cardinality(same_from(fn_in.events, fn_in.events[i]))

\* a chord of two notes and a later event were processed with positive
\* intervals, and an event came out later than it went in
C20_Witness ==
    /\ fn_pc = "processed"
    /\ Len(fn_in.events) = 3
    /\ exactly_simultaneous(fn_in.events)
    /\ fn_in.events[1][1] = fn_in.events[2][1]
    /\ fn_in.events[3][1] > fn_in.events[2][1]
    /\ fn_in.chord_min_interval > 0
    /\ fn_in.note_min_interval > 0
    /\ \E i \in 1..3 : fn_out[i][1] > fn_in.events[3][1]

====
